---- MODULE Spec2Model ----
(***************************************************************************)
(* dry-rest-permissions: the permission gate (DRYPermissions), the field   *)
(* reporter (DRYPermissionsField) and the filter router                    *)
(* (DRYPermissionFiltersBase) of dry_rest_permissions/generics.py.         *)
(*                                                                         *)
(* Python values are modelled by their repr: "True", "False", "None".      *)
(* A call ends either by returning a value or by raising; the outcome of   *)
(* a call is the returned value or the name of the exception class.        *)
(* A model class is the table of the permission methods it defines: a      *)
(* function from method names to the value the method returns for the      *)
(* request at hand. hasattr is domain membership, a call is application.   *)
(***************************************************************************)
EXTENDS Naturals, Sequences, FiniteSets, TLC

VARIABLES
    methods,        \* the model class T: method name -> returned value
    has_meta_model, \* serializer_class.Meta.model is T (TRUE) or None (FALSE)
    permission,     \* the permission instance: its three class attributes
    view,           \* the view: action (or no such attribute), lookup kwarg
    request,        \* the request: HTTP method
    gate_call,      \* outcome of the last call on the permission gate
    field,          \* the DRYPermissionsField instance
    field_call,     \* outcome of the last call on the field
    backend,        \* the filter backend: action_routing, methods defined
    filter_call,    \* outcome of the last filter_queryset call
    decorated,      \* the permission method a decorator wraps
    deco_call       \* outcome of the last call of a decorated method

vars == <<methods, has_meta_model, permission, view, request, gate_call,
          field, field_call, backend, filter_call, decorated, deco_call>>

-----------------------------------------------------------------------------
(* Bounds of the exploration *)

\* A model class defines at most this many permission methods.
MaxDefined == 2

-----------------------------------------------------------------------------
(* Python values and outcomes *)

PyTrue == "True"
PyFalse == "False"
AssertionError == "AssertionError"
AttributeError == "AttributeError"

\* The view has no attribute 'action'.
NoAction == "<unset>"

\* rest_framework.permissions.SAFE_METHODS
SAFE_METHODS == {"GET", "HEAD", "OPTIONS"}

HttpMethods == {"GET", "OPTIONS", "POST", "PATCH"}

\* Actions a view of the gate model is dispatched with.
ViewActions == {"retrieve", "update", "partial_update"}

GlobalMethodName(action) == "has_" \o action \o "_permission"
ObjectMethodName(action) == "has_object_" \o action \o "_permission"

hasattr(obj, name) == name \in DOMAIN obj

\* not x, for the values a permission method returns
Falsy(v) == v = PyFalse

\* All tables over the method names in `names` defining at most MaxDefined.
ModelClasses(names) ==
    UNION { [S -> {PyTrue, PyFalse}] :
            S \in { X \in SUBSET names : Cardinality(X) <= MaxDefined } }

\* Action names the field model probes: the default six and a custom one.
FieldActionNames == {"create", "retrieve", "update", "destroy", "write", "read", "custom_action1"}

AllActionNames == ViewActions \cup FieldActionNames \cup {"read", "write"}

IsGlobalMethod(name) == name \in { GlobalMethodName(a) : a \in AllActionNames }
IsObjectMethod(name) == name \in { ObjectMethodName(a) : a \in AllActionNames }

GateMethodNames ==
    { GlobalMethodName(a) : a \in ViewActions \cup {"read", "write"} }
    \cup { ObjectMethodName(a) : a \in ViewActions \cup {"read", "write"} }


-----------------------------------------------------------------------------
(* DRYPermissions *)

\* The outcome of a call: result is the returned value or the exception
\* raised, message the exception's message, probed the names given to
\* hasattr and invoked the methods called, both in order.
Outcome(result, message, probed, invoked) ==
    [result |-> result, message |-> message, probed |-> probed, invoked |-> invoked]

Raised(o) == o.result \in {AssertionError, AttributeError}

_get_action_never(self, action) == action

_get_action(self, action) ==
    IF self.partial_update_is_update /\ action = "partial_update"
    THEN "update"
    ELSE action

_get_error_message(method_name, action_method_name) ==
    IF action_method_name # "None"
    THEN "'T' does not have '" \o method_name \o "' or '" \o action_method_name \o "' defined."
    ELSE "'T' does not have '" \o method_name \o "' defined."

\* Lines 121-128 and 147-154: the general read/write method named by the
\* HTTP method's safety, looked up on `target`; `probed` is what was probed
\* before.
GeneralStep(target, req, read_name, write_name, action_method_name, probed) ==
    LET name == IF req.method \in SAFE_METHODS THEN read_name ELSE write_name
    IN  IF hasattr(target, name)
        THEN Outcome(target[name], "", Append(probed, name), <<name>>)
        ELSE Outcome(AssertionError, _get_error_message(name, action_method_name),
                     Append(probed, name), <<>>)

has_permission_general_only(self, req, v) ==
    IF ~self.global_permissions THEN Outcome(PyTrue, "", <<>>, <<>>)
    ELSE IF ~has_meta_model
    THEN Outcome(AssertionError, "global_permissions set to true without a model set on the serializer for 'View'", <<>>, <<>>)
    ELSE GeneralStep(methods, req, "has_read_permission", "has_write_permission", "None", <<>>)

has_permission_swapped(self, req, v) ==
    IF ~self.global_permissions THEN Outcome(PyTrue, "", <<>>, <<>>)
    ELSE IF ~has_meta_model
    THEN Outcome(AssertionError, "global_permissions set to true without a model set on the serializer for 'View'", <<>>, <<>>)
    ELSE LET action_method_name ==
                 IF v.action # NoAction
                 THEN GlobalMethodName(_get_action(self, v.action))
                 ELSE "None"
         IN  IF v.action # NoAction /\ hasattr(methods, action_method_name)
             THEN Outcome(methods[action_method_name], "",
                          <<action_method_name>>, <<action_method_name>>)
             ELSE GeneralStep(methods, req, "has_write_permission", "has_read_permission",
                              action_method_name,
                              IF v.action # NoAction THEN <<action_method_name>> ELSE <<>>)

has_permission_no_model_assert(self, req, v) ==
    IF ~self.global_permissions THEN Outcome(PyTrue, "", <<>>, <<>>)
    ELSE LET action_method_name ==
                 IF v.action # NoAction
                 THEN GlobalMethodName(_get_action(self, v.action))
                 ELSE "None"
         IN  IF v.action # NoAction /\ hasattr(methods, action_method_name)
             THEN Outcome(methods[action_method_name], "",
                          <<action_method_name>>, <<action_method_name>>)
             ELSE GeneralStep(methods, req, "has_read_permission", "has_write_permission",
                              action_method_name,
                              IF v.action # NoAction THEN <<action_method_name>> ELSE <<>>)

has_permission(self, req, v) ==
    IF ~self.global_permissions THEN Outcome(PyTrue, "", <<>>, <<>>)
    ELSE IF ~has_meta_model
    THEN Outcome(AssertionError, "global_permissions set to true without a model set on the serializer for 'View'", <<>>, <<>>)
    ELSE LET action_method_name ==
                 IF v.action # NoAction
                 THEN GlobalMethodName(_get_action(self, v.action))
                 ELSE "None"
         IN  IF v.action # NoAction /\ hasattr(methods, action_method_name)
             THEN Outcome(methods[action_method_name], "",
                          <<action_method_name>>, <<action_method_name>>)
             ELSE GeneralStep(methods, req, "has_read_permission", "has_write_permission",
                              action_method_name,
                              IF v.action # NoAction THEN <<action_method_name>> ELSE <<>>)

has_object_permission_general_only(self, req, v, obj) ==
    IF ~self.object_permissions THEN Outcome(PyTrue, "", <<>>, <<>>)
    ELSE GeneralStep(obj, req, "has_object_read_permission", "has_object_write_permission", "None", <<>>)

has_object_permission(self, req, v, obj) ==
    IF ~self.object_permissions THEN Outcome(PyTrue, "", <<>>, <<>>)
    ELSE LET action_method_name ==
                 IF v.action # NoAction
                 THEN ObjectMethodName(_get_action(self, v.action))
                 ELSE "None"
         IN  IF v.action # NoAction /\ hasattr(obj, action_method_name)
             THEN Outcome(obj[action_method_name], "",
                          <<action_method_name>>, <<action_method_name>>)
             ELSE GeneralStep(obj, req, "has_object_read_permission", "has_object_write_permission",
                              action_method_name,
                              IF v.action # NoAction THEN <<action_method_name>> ELSE <<>>)

\* tests.py DummyViewSet.dummy_check_permission with the view's one
\* permission class: has_permission, then has_object_permission.
dummy_check_permission_no_stop(self, req, v, obj) ==
    LET g == has_permission(self, req, v)
        o == has_object_permission(self, req, v, obj)
    IN  IF Raised(g) THEN g
        ELSE IF Raised(o)
             THEN Outcome(o.result, o.message, g.probed \o o.probed, g.invoked \o o.invoked)
             ELSE Outcome(IF Falsy(g.result) \/ Falsy(o.result) THEN PyFalse ELSE PyTrue, "",
                          g.probed \o o.probed, g.invoked \o o.invoked)

dummy_check_permission_object_only(self, req, v, obj) ==
    LET o == has_object_permission(self, req, v, obj)
    IN  IF Raised(o) THEN o
        ELSE Outcome(IF Falsy(o.result) THEN PyFalse ELSE PyTrue, "", o.probed, o.invoked)

dummy_check_permission(self, req, v, obj) ==
    LET g == has_permission(self, req, v)
        o == has_object_permission(self, req, v, obj)
    IN  IF Raised(g) THEN g
        ELSE IF Falsy(g.result) THEN Outcome(PyFalse, "", g.probed, g.invoked)
        ELSE IF Raised(o)
             THEN Outcome(o.result, o.message, g.probed \o o.probed, g.invoked \o o.invoked)
             ELSE Outcome(IF Falsy(o.result) THEN PyFalse ELSE PyTrue, "",
                          g.probed \o o.probed, g.invoked \o o.invoked)

-----------------------------------------------------------------------------
(* State: the gate *)

PermissionClasses ==
    [global_permissions : BOOLEAN, object_permissions : BOOLEAN,
     partial_update_is_update : BOOLEAN]

NoCall == [op |-> "none", result |-> "None", message |-> "", probed |-> <<>>, invoked |-> <<>>]

Called(op, o) ==
    [op |-> op, result |-> o.result, message |-> o.message,
     probed |-> o.probed, invoked |-> o.invoked]

\* The other components, before they are constructed or called.
NoField ==
    [constructed |-> FALSE, actions |-> <<>>, global_only |-> FALSE,
     object_only |-> FALSE, action_method_map |-> <<>>, bound |-> FALSE]
NoFieldCall ==
    [op |-> "none", result |-> "None", results |-> <<>>, probed |-> <<>>, invoked |-> <<>>]
NoBackend == [action_routing |-> FALSE, defined |-> {}]
NoFilterCall == [op |-> "none", result |-> "None", queryset |-> <<>>, returned |-> <<>>, invoked |-> <<>>]
NoFunction == [name |-> "", returns |-> "None"]
NoDecoCall == [decorator |-> "none", args |-> <<>>, result |-> "None", called |-> FALSE, called_with |-> <<>>]

GateInit ==
    /\ methods \in ModelClasses(GateMethodNames)
    /\ has_meta_model \in BOOLEAN
    /\ permission \in PermissionClasses
    /\ view \in [action : ViewActions \cup {NoAction}, has_lookup : {TRUE}]
    /\ request \in [method : HttpMethods]
    /\ gate_call = NoCall
    /\ field = NoField
    /\ field_call = NoFieldCall
    /\ backend = NoBackend
    /\ filter_call = NoFilterCall
    /\ decorated = NoFunction
    /\ deco_call = NoDecoCall

HasPermission ==
    /\ gate_call' = Called("has_permission", has_permission(permission, request, view))
    /\ UNCHANGED <<methods, has_meta_model, permission, view, request,
                   field, field_call, backend, filter_call, decorated, deco_call>>

HasObjectPermission ==
    /\ gate_call' = Called("has_object_permission",
                           has_object_permission(permission, request, view, methods))
    /\ UNCHANGED <<methods, has_meta_model, permission, view, request,
                   field, field_call, backend, filter_call, decorated, deco_call>>

DummyCheckPermission ==
    /\ gate_call' = Called("dummy_check_permission",
                           dummy_check_permission(permission, request, view, methods))
    /\ UNCHANGED <<methods, has_meta_model, permission, view, request,
                   field, field_call, backend, filter_call, decorated, deco_call>>

GateNext == HasPermission \/ HasObjectPermission \/ DummyCheckPermission

GateSpec == GateInit /\ [][GateNext]_vars

-----------------------------------------------------------------------------
(* DRYPermissionsField *)

\* An optional argument: None, or the list given.
None == <<>>
Some(list) == <<list>>

default_actions == <<"create", "retrieve", "update", "destroy", "write", "read">>

\* A dict in insertion order: a sequence of <<key, value>> pairs.
DictKeys(d) == { d[i][1] : i \in 1..Len(d) }
DictGet(d, k) == (CHOOSE i \in 1..Len(d) : d[i][1] = k)
DictValue(d, k) == d[DictGet(d, k)][2]
DictSet(d, k, val) ==
    IF k \in DictKeys(d)
    THEN [d EXCEPT ![DictGet(d, k)] = <<k, val>>]
    ELSE Append(d, <<k, val>>)

\* Lines 213-223: the attributes __init__ sets.
field_init(actions, additional_actions, global_only, object_only) ==
    LET base == IF actions = None THEN default_actions ELSE actions[1]
    IN  [constructed |-> TRUE,
         actions |-> IF additional_actions # None THEN base \o additional_actions[1] ELSE base,
         global_only |-> global_only,
         object_only |-> object_only,
         action_method_map |-> <<>>,
         bound |-> FALSE]

BindAction_general_fallback(self, model, map, action) ==
    LET global_method_name ==
            IF hasattr(model, GlobalMethodName(action)) THEN GlobalMethodName(action)
            ELSE "has_read_permission"
        object_method_name == ObjectMethodName(action)
        m1 == IF ~self.object_only /\ hasattr(model, global_method_name)
              THEN DictSet(map, action, [global |-> global_method_name])
              ELSE map
        m2 == IF action \in DictKeys(m1) THEN m1 ELSE DictSet(m1, action, <<>>)
    IN  IF ~self.global_only /\ hasattr(model, object_method_name)
        THEN DictSet(m2, action,
                     [k \in DOMAIN DictValue(m2, action) \cup {"object"} |->
                        IF k = "object" THEN object_method_name
                        ELSE DictValue(m2, action)[k]])
        ELSE m1

BindAction_ignores_mode(self, model, map, action) ==
    LET global_method_name == GlobalMethodName(action)
        object_method_name == ObjectMethodName(action)
        m1 == IF hasattr(model, global_method_name)
              THEN DictSet(map, action, [global |-> global_method_name])
              ELSE map
        m2 == IF action \in DictKeys(m1) THEN m1 ELSE DictSet(m1, action, <<>>)
    IN  IF hasattr(model, object_method_name)
        THEN DictSet(m2, action,
                     [k \in DOMAIN DictValue(m2, action) \cup {"object"} |->
                        IF k = "object" THEN object_method_name
                        ELSE DictValue(m2, action)[k]])
        ELSE m1

BindAction_keeps_empty_record(self, model, map, action) ==
    LET global_method_name == GlobalMethodName(action)
        object_method_name == ObjectMethodName(action)
        m1 == IF ~self.object_only /\ hasattr(model, global_method_name)
              THEN DictSet(map, action, [global |-> global_method_name])
              ELSE map
        m2 == IF action \in DictKeys(m1) THEN m1 ELSE DictSet(m1, action, <<>>)
    IN  IF self.global_only THEN m1
        ELSE IF hasattr(model, object_method_name)
        THEN DictSet(m2, action,
                     [k \in DOMAIN DictValue(m2, action) \cup {"object"} |->
                        IF k = "object" THEN object_method_name
                        ELSE DictValue(m2, action)[k]])
        ELSE m2

\* Lines 238-248: the body of bind's loop for one action.
BindAction(self, model, map, action) ==
    LET global_method_name == GlobalMethodName(action)
        object_method_name == ObjectMethodName(action)
        m1 == IF ~self.object_only /\ hasattr(model, global_method_name)
              THEN DictSet(map, action, [global |-> global_method_name])
              ELSE map
        m2 == IF action \in DictKeys(m1) THEN m1 ELSE DictSet(m1, action, <<>>)
    IN  IF ~self.global_only /\ hasattr(model, object_method_name)
        THEN DictSet(m2, action,
                     [k \in DOMAIN DictValue(m2, action) \cup {"object"} |->
                        IF k = "object" THEN object_method_name
                        ELSE DictValue(m2, action)[k]])
        ELSE m1

RECURSIVE BindLoop(_, _, _, _)
BindLoop(self, model, map, i) ==
    IF i > Len(self.actions) THEN map
    ELSE BindLoop(self, model, BindAction(self, model, map, self.actions[i]), i + 1)

\* Lines 229-250: the map bind leaves on the field.
bind(self, model) == BindLoop(self, model, self.action_method_map, 1)

RepresentAction_no_short_circuit(self, model, value, acc, action, method_names) ==
    LET a1 == IF ~self.object_only /\ "global" \in DOMAIN method_names
              THEN [results |-> DictSet(acc.results, action, model[method_names.global]),
                    invoked |-> Append(acc.invoked, method_names.global)]
              ELSE acc
    IN  IF ~self.global_only /\ "object" \in DOMAIN method_names
        THEN [results |-> DictSet(a1.results, action, value[method_names.object]),
              invoked |-> Append(a1.invoked, method_names.object)]
        ELSE a1

\* Lines 259-265: the body of to_representation's loop for one action; acc
\* is the results dict and the methods invoked so far.
RepresentAction(self, model, value, acc, action, method_names) ==
    LET a1 == IF ~self.object_only /\ "global" \in DOMAIN method_names
              THEN [results |-> DictSet(acc.results, action, model[method_names.global]),
                    invoked |-> Append(acc.invoked, method_names.global)]
              ELSE acc
        got == IF action \in DictKeys(a1.results) THEN DictValue(a1.results, action) ELSE PyTrue
    IN  IF ~self.global_only /\ ~Falsy(got) /\ "object" \in DOMAIN method_names
        THEN [results |-> DictSet(a1.results, action, value[method_names.object]),
              invoked |-> Append(a1.invoked, method_names.object)]
        ELSE a1

RECURSIVE RepresentLoop(_, _, _, _, _)
RepresentLoop(self, model, value, acc, i) ==
    IF i > Len(self.action_method_map) THEN acc
    ELSE RepresentLoop(self, model, value,
                       RepresentAction(self, model, value, acc,
                                       self.action_method_map[i][1],
                                       self.action_method_map[i][2]),
                       i + 1)

\* Lines 252-266.
to_representation(self, model, value) ==
    RepresentLoop(self, model, value, [results |-> <<>>, invoked |-> <<>>], 1)

-----------------------------------------------------------------------------
(* State: the field *)

FieldMethodNames ==
    { GlobalMethodName(a) : a \in FieldActionNames }
    \cup { ObjectMethodName(a) : a \in FieldActionNames }

ActionsArgs == {None, Some(<<"retrieve", "custom_action1">>)}
AdditionalActionsArgs == {None, Some(<<"custom_action1">>), Some(<<"create">>)}

DefaultPermission ==
    [global_permissions |-> TRUE, object_permissions |-> TRUE,
     partial_update_is_update |-> TRUE]

FieldInit ==
    /\ methods \in ModelClasses(FieldMethodNames)
    /\ has_meta_model \in BOOLEAN
    /\ permission = DefaultPermission
    /\ view = [action |-> "retrieve", has_lookup |-> TRUE]
    /\ request = [method |-> "GET"]
    /\ gate_call = NoCall
    /\ field = NoField
    /\ field_call = NoFieldCall
    /\ backend = NoBackend
    /\ filter_call = NoFilterCall
    /\ decorated = NoFunction
    /\ deco_call = NoDecoCall

FieldCalled(op, result, results, invoked) ==
    [op |-> op, result |-> result, results |-> results, probed |-> <<>>, invoked |-> invoked]

\* DRYPermissionsField(actions=..., additional_actions=..., global_only=...,
\* object_only=...)
Construct ==
    /\ ~field.constructed
    /\ \E actions \in ActionsArgs, additional_actions \in AdditionalActionsArgs,
          global_only \in BOOLEAN, object_only \in BOOLEAN :
          IF global_only /\ object_only
          THEN /\ field_call' = FieldCalled("__init__", AssertionError, <<>>, <<>>)
               /\ field' = field
          ELSE /\ field_call' = FieldCalled("__init__", "None", <<>>, <<>>)
               /\ field' = field_init(actions, additional_actions, global_only, object_only)
    /\ UNCHANGED <<methods, has_meta_model, permission, view, request, gate_call,
                   backend, filter_call, decorated, deco_call>>

\* field.bind(field_name, parent), parent the serializer of the model class
Bind ==
    /\ field.constructed
    /\ IF ~has_meta_model
       THEN /\ field_call' = FieldCalled("bind", AssertionError, <<>>, <<>>)
            /\ field' = field
       ELSE /\ field_call' = FieldCalled("bind", "None", <<>>, <<>>)
            /\ field' = [field EXCEPT !.action_method_map = bind(field, methods),
                                       !.bound = TRUE]
    /\ UNCHANGED <<methods, has_meta_model, permission, view, request, gate_call,
                   backend, filter_call, decorated, deco_call>>

\* field.to_representation(value), value an instance of the model class
ToRepresentation ==
    /\ field.constructed
    /\ LET r == to_representation(field, methods, methods)
       IN  field_call' = FieldCalled("to_representation", "dict", r.results, r.invoked)
    /\ UNCHANGED <<methods, has_meta_model, permission, view, request, gate_call,
                   field, backend, filter_call, decorated, deco_call>>

FieldNext == Construct \/ Bind \/ ToRepresentation

FieldSpec == FieldInit /\ [][FieldNext]_vars

-----------------------------------------------------------------------------
(* DRYPermissionFiltersBase *)

FilterMethodName(action) == "filter_" \o action \o "_queryset"

\* A queryset is the sequence of filter clauses applied to it; a filter
\* method of a subclass returns the queryset with its own clause added.
Querysets == {<<>>, <<"all">>}

FilterOutcome(result, returned, invoked) ==
    [result |-> result, returned |-> returned, invoked |-> invoked]

\* Lines 51-56, or the subclass's override.
filter_list_queryset(self, queryset) ==
    IF "filter_list_queryset" \in self.defined
    THEN FilterOutcome("queryset", Append(queryset, "filter_list_queryset"),
                       <<"filter_list_queryset">>)
    ELSE FilterOutcome(AssertionError, <<>>, <<"filter_list_queryset">>)

filter_queryset_always_list(self, queryset, v) ==
    filter_list_queryset(self, queryset)

filter_queryset_falls_back_to_list(self, queryset, v) ==
    IF ~v.has_lookup
    THEN IF ~self.action_routing
         THEN filter_list_queryset(self, queryset)
         ELSE IF v.action = NoAction
              THEN FilterOutcome(AttributeError, <<>>, <<>>)
              ELSE LET method_name == FilterMethodName(v.action)
                   IN  IF method_name \in self.defined /\ method_name # "filter_list_queryset"
                       THEN FilterOutcome("queryset", Append(queryset, method_name),
                                          <<method_name>>)
                       ELSE filter_list_queryset(self, queryset)
    ELSE FilterOutcome("queryset", queryset, <<>>)

\* Lines 35-49.
filter_queryset(self, queryset, v) ==
    IF ~v.has_lookup
    THEN IF ~self.action_routing
         THEN filter_list_queryset(self, queryset)
         ELSE IF v.action = NoAction
              THEN FilterOutcome(AttributeError, <<>>, <<>>)
              ELSE LET method_name == FilterMethodName(v.action)
                   IN  IF method_name = "filter_list_queryset"
                       THEN filter_list_queryset(self, queryset)
                       ELSE IF method_name \in self.defined
                            THEN FilterOutcome("queryset", Append(queryset, method_name),
                                               <<method_name>>)
                            ELSE FilterOutcome(AttributeError, <<>>, <<>>)
    ELSE FilterOutcome("queryset", queryset, <<>>)

-----------------------------------------------------------------------------
(* State: the filter backend *)

FilterViewActions == {"list", "retrieve", "custom_action1"}

FilterMethods == { FilterMethodName(a) : a \in FilterViewActions }

FilterInit ==
    /\ methods = <<>>
    /\ has_meta_model = TRUE
    /\ permission = DefaultPermission
    /\ view \in [action : FilterViewActions \cup {NoAction}, has_lookup : BOOLEAN]
    /\ request = [method |-> "GET"]
    /\ gate_call = NoCall
    /\ field = NoField
    /\ field_call = NoFieldCall
    /\ backend \in [action_routing : BOOLEAN, defined : SUBSET FilterMethods]
    /\ filter_call = NoFilterCall
    /\ decorated = NoFunction
    /\ deco_call = NoDecoCall

FilterQueryset ==
    /\ \E queryset \in Querysets :
          LET o == filter_queryset(backend, queryset, view)
          IN  filter_call' = [op |-> "filter_queryset", result |-> o.result,
                              queryset |-> queryset, returned |-> o.returned,
                              invoked |-> o.invoked]
    /\ UNCHANGED <<methods, has_meta_model, permission, view, request, gate_call,
                   field, field_call, backend, decorated, deco_call>>

FilterNext == FilterQueryset

FilterSpec == FilterInit /\ [][FilterNext]_vars

-----------------------------------------------------------------------------
(* Properties of the permission gate, checked under GateSpec *)

Range(seq) == { seq[i] : i \in 1..Len(seq) }

GeneralGlobalMethods == {"has_read_permission", "has_write_permission"}
GeneralObjectMethods == {"has_object_read_permission", "has_object_write_permission"}

Safe == request.method \in SAFE_METHODS

\* The action name the gate is documented to look up (class docstring,
\* partial_update_is_update): partial_update counts as update when the flag
\* is set.
LookedUpAction ==
    IF view.action = "partial_update" /\ permission.partial_update_is_update
    THEN "update"
    ELSE view.action

\* has_permission was called with global checks enabled on a view with an
\* action, and the model class defines the specific global method of `a`.
SpecificGlobalCase(a) ==
    /\ gate_call.op = "has_permission"
    /\ permission.global_permissions
    /\ has_meta_model
    /\ view.action # NoAction
    /\ hasattr(methods, GlobalMethodName(a))

SpecificGlobalWins(a) ==
    SpecificGlobalCase(a) =>
        /\ gate_call.result = methods[GlobalMethodName(a)]
        /\ Range(gate_call.probed) \cap GeneralGlobalMethods = {}
        /\ Range(gate_call.invoked) \cap GeneralGlobalMethods = {}

\* C1 as stated: for every action A of the view, if the model defines
\* has_A_permission then has_permission returns that method's value and
\* neither general method is probed or invoked.
C1_AsStated == SpecificGlobalWins(view.action)

\* C1, amended: the same, for the action name the gate looks up, which is
\* 'update' for 'partial_update' when partial_update_is_update is set and
\* the view's action otherwise.
C1_SpecificGlobalReplacesGeneral == SpecificGlobalWins(LookedUpAction)

\* A PATCH partial_update under the default flag answered by
\* has_update_permission although has_write_permission says otherwise.
C1_Witness ==
    /\ SpecificGlobalCase(LookedUpAction)
    /\ view.action = "partial_update" /\ permission.partial_update_is_update
    /\ ~Safe
    /\ hasattr(methods, "has_write_permission")
    /\ methods["has_write_permission"] # methods["has_update_permission"]
    /\ gate_call.result = PyFalse

\* has_permission was called with global checks enabled and the model class
\* defines no specific global method of `a` (or the view has no action).
GeneralGlobalCase(a) ==
    /\ gate_call.op = "has_permission"
    /\ permission.global_permissions
    /\ has_meta_model
    /\ (view.action = NoAction \/ ~hasattr(methods, GlobalMethodName(a)))

GeneralGlobalDecides(a) ==
    GeneralGlobalCase(a) =>
        LET required == IF Safe THEN "has_read_permission" ELSE "has_write_permission"
            other == IF Safe THEN "has_write_permission" ELSE "has_read_permission"
        IN  /\ hasattr(methods, required) => gate_call.result = methods[required]
            /\ ~hasattr(methods, required) => gate_call.result = AssertionError
            /\ other \notin Range(gate_call.probed)
            /\ other \notin Range(gate_call.invoked)

\* C2 as stated: without has_A_permission for the view's action A, a safe
\* method returns has_read_permission's value and an unsafe one
\* has_write_permission's, an absent required method raises AssertionError,
\* and the other general method is neither probed nor invoked.
C2_AsStated == GeneralGlobalDecides(view.action)

\* C2, amended: the same, where the specific method is that of the action
\* name the gate looks up ('update' for 'partial_update' under
\* partial_update_is_update).
C2_GeneralGlobalFallback == GeneralGlobalDecides(LookedUpAction)

\* An unsafe request without specific method and without
\* has_write_permission raised, while has_read_permission is defined.
C2_Witness ==
    /\ GeneralGlobalCase(LookedUpAction)
    /\ view.action # NoAction
    /\ ~Safe
    /\ ~hasattr(methods, "has_write_permission")
    /\ hasattr(methods, "has_read_permission")
    /\ gate_call.result = AssertionError
    /\ gate_call.message = _get_error_message("has_write_permission", GlobalMethodName(LookedUpAction))

GlobalResult == has_permission(permission, request, view)
ObjectResult == has_object_permission(permission, request, view, methods)

\* C3: the outcome of has_permission followed by has_object_permission is
\* True exactly when both return True and False exactly when the global
\* check returns False or the object check does (anything else is the error
\* one of them raised); with object checks disabled it is the global outcome
\* and no object method is called, with global checks disabled it is the
\* object outcome and no global method is called.
C3_OverallIsGlobalAndObject ==
    gate_call.op = "dummy_check_permission" =>
        /\ (permission.global_permissions /\ permission.object_permissions) =>
              /\ gate_call.result = PyTrue <=>
                    (GlobalResult.result = PyTrue /\ ObjectResult.result = PyTrue)
              /\ gate_call.result = PyFalse <=>
                    \/ GlobalResult.result = PyFalse
                    \/ (GlobalResult.result = PyTrue /\ ObjectResult.result = PyFalse)
        /\ ~permission.object_permissions =>
              /\ gate_call.result = GlobalResult.result
              /\ \A m \in Range(gate_call.invoked) : ~IsObjectMethod(m)
        /\ ~permission.global_permissions =>
              /\ gate_call.result = ObjectResult.result
              /\ \A m \in Range(gate_call.invoked) : ~IsGlobalMethod(m)

\* Both checks enabled, the global method said True, the object method
\* False, and the overall answer is False.
C3_Witness ==
    /\ gate_call.op = "dummy_check_permission"
    /\ permission.global_permissions /\ permission.object_permissions
    /\ Len(gate_call.invoked) = 2
    /\ methods[gate_call.invoked[1]] = PyTrue
    /\ methods[gate_call.invoked[2]] = PyFalse
    /\ gate_call.result = PyFalse

\* has_object_permission was called with object checks enabled on a view
\* with an action, and the instance has the specific object method of `a`.
SpecificObjectCase(a) ==
    /\ gate_call.op = "has_object_permission"
    /\ permission.object_permissions
    /\ view.action # NoAction
    /\ hasattr(methods, ObjectMethodName(a))

GeneralObjectCase(a) ==
    /\ gate_call.op = "has_object_permission"
    /\ permission.object_permissions
    /\ (view.action = NoAction \/ ~hasattr(methods, ObjectMethodName(a)))

ObjectMirrorsGlobal(a) ==
    /\ SpecificObjectCase(a) =>
          /\ gate_call.result = methods[ObjectMethodName(a)]
          /\ Range(gate_call.probed) \cap GeneralObjectMethods = {}
          /\ Range(gate_call.invoked) \cap GeneralObjectMethods = {}
    /\ GeneralObjectCase(a) =>
          LET required == IF Safe THEN "has_object_read_permission"
                          ELSE "has_object_write_permission"
          IN  /\ hasattr(methods, required) =>
                    /\ gate_call.result = methods[required]
                    /\ gate_call.invoked = <<required>>
              /\ ~hasattr(methods, required) => gate_call.result = AssertionError
    /\ (gate_call.op = "has_object_permission" /\ ~permission.object_permissions) =>
          /\ gate_call.result = PyTrue
          /\ gate_call.probed = <<>>
          /\ gate_call.invoked = <<>>

\* C4 as stated: has_object_permission returns has_object_A_permission's
\* value for the view's action A when the instance has that method, without
\* consulting the general object methods; otherwise the general object
\* method named by the HTTP method's safety decides, an absent one raising
\* AssertionError; with object checks disabled it returns True and calls
\* nothing.
C4_AsStated == ObjectMirrorsGlobal(view.action)

\* C4, amended: the same, for the action name the gate looks up ('update'
\* for 'partial_update' under partial_update_is_update).
C4_ObjectMirrorsGlobal == ObjectMirrorsGlobal(LookedUpAction)

\* The specific object method denied although the general object method of
\* the request's category allows.
C4_Witness ==
    /\ SpecificObjectCase(LookedUpAction)
    /\ Safe
    /\ hasattr(methods, "has_object_read_permission")
    /\ methods["has_object_read_permission"] = PyTrue
    /\ gate_call.result = PyFalse

\* The outcome of the last gate call had the view's action been `a`.
SameCallWithAction(a) ==
    LET v == [view EXCEPT !.action = a]
    IN  IF gate_call.op = "has_permission"
        THEN Called(gate_call.op, has_permission(permission, request, v))
        ELSE Called(gate_call.op, has_object_permission(permission, request, v, methods))

SpecificName(a) ==
    IF gate_call.op = "has_permission" THEN GlobalMethodName(a) ELSE ObjectMethodName(a)

\* The last gate call was one that looks a specific method up.
LooksUp ==
    /\ \/ gate_call.op = "has_permission" /\ permission.global_permissions /\ has_meta_model
       \/ gate_call.op = "has_object_permission" /\ permission.object_permissions
    /\ view.action # NoAction

\* C5: with partial_update_is_update set, has_permission and
\* has_object_permission for 'partial_update' end exactly as for 'update' on
\* the same request, looking up the update method and never the
\* partial_update one; with the flag unset 'partial_update' looks up its own
\* specific method and never the update one; every other action looks up
\* the specific method of its own name.
C5_PartialUpdateIsUpdate ==
    /\ ( /\ gate_call.op \in {"has_permission", "has_object_permission"}
         /\ view.action = "partial_update"
         /\ permission.partial_update_is_update ) =>
          /\ gate_call = SameCallWithAction("update")
          /\ SpecificName("partial_update") \notin Range(gate_call.probed)
    /\ LooksUp =>
        /\ (view.action = "partial_update" /\ permission.partial_update_is_update) =>
              gate_call.probed[1] = SpecificName("update")
        /\ (view.action = "partial_update" /\ ~permission.partial_update_is_update) =>
              /\ gate_call.probed[1] = SpecificName("partial_update")
              /\ SpecificName("update") \notin Range(gate_call.probed)
        /\ view.action # "partial_update" =>
              gate_call.probed[1] = SpecificName(view.action)

\* Under the flag a partial_update was answered by has_update_permission
\* while has_partial_update_permission, also defined, says otherwise.
C5_Witness ==
    /\ LooksUp
    /\ gate_call.op = "has_permission"
    /\ view.action = "partial_update" /\ permission.partial_update_is_update
    /\ hasattr(methods, "has_update_permission")
    /\ hasattr(methods, "has_partial_update_permission")
    /\ methods["has_partial_update_permission"] # methods["has_update_permission"]
    /\ gate_call.result = methods["has_update_permission"]

\* C6: in dummy_check_permission the methods are called in the order global
\* then object, at most one of each (the specific one or else the general
\* one), and once a called method has returned False nothing is called
\* after it: after a global False no object method is probed or called.
C6_StopsAtFirstFalse ==
    gate_call.op = "dummy_check_permission" =>
        /\ Len(gate_call.invoked) <= 2
        /\ Len(gate_call.invoked) = 2 =>
              /\ IsGlobalMethod(gate_call.invoked[1])
              /\ IsObjectMethod(gate_call.invoked[2])
        /\ \A i \in 1..Len(gate_call.invoked) :
              methods[gate_call.invoked[i]] = PyFalse =>
                  /\ i = Len(gate_call.invoked)
                  /\ gate_call.result = PyFalse
                  /\ IsGlobalMethod(gate_call.invoked[i]) =>
                        \A m \in Range(gate_call.probed) : ~IsObjectMethod(m)

\* The global check returned False on a model whose object methods are
\* defined, and the check ended there with False.
C6_Witness ==
    /\ gate_call.op = "dummy_check_permission"
    /\ permission.global_permissions /\ permission.object_permissions
    /\ gate_call.result = PyFalse
    /\ Len(gate_call.invoked) = 1
    /\ IsGlobalMethod(gate_call.invoked[1])
    /\ \E m \in DOMAIN methods : IsObjectMethod(m)
    /\ ~Raised(ObjectResult)

-----------------------------------------------------------------------------
(* Properties of the field, checked under FieldSpec *)

\* to_representation was the last call, on a field that bind has bound.
Represented == field_call.op = "to_representation" /\ field.bound

HasGlobal(a) == hasattr(methods, GlobalMethodName(a))
HasObject(a) == hasattr(methods, ObjectMethodName(a))

\* C7: the keys of the mapping to_representation returns on a bound field
\* are exactly the configured actions for which the model defines a method
\* the mode permits: has_A_permission unless object_only,
\* has_object_A_permission unless global_only. Any other action is absent,
\* also when has_read_permission or has_write_permission is defined.
C7_KeysAreActionsWithMethods ==
    Represented =>
        DictKeys(field_call.results) =
            { a \in Range(field.actions) :
                \/ ~field.object_only /\ HasGlobal(a)
                \/ ~field.global_only /\ HasObject(a) }

\* 'read' is reported and 'retrieve', configured but without methods of its
\* own, is not.
C7_Witness ==
    /\ Represented
    /\ {"retrieve", "read"} \subseteq Range(field.actions)
    /\ ~field.object_only
    /\ HasGlobal("read") /\ ~HasGlobal("retrieve") /\ ~HasObject("retrieve")
    /\ "read" \in DictKeys(field_call.results)
    /\ "retrieve" \notin DictKeys(field_call.results)

And(a, b) == IF a = PyTrue /\ b = PyTrue THEN PyTrue ELSE PyFalse

\* C8: in combined mode the value reported for an action is the AND of the
\* global and the object method's values when the model defines both and
\* the value of the only one otherwise; when the global method returned
\* False the object method is not called and False is reported.
C8_CombinedIsAnd ==
    (Represented /\ ~field.global_only /\ ~field.object_only) =>
        \A a \in DictKeys(field_call.results) :
            LET reported == DictValue(field_call.results, a)
                g == methods[GlobalMethodName(a)]
                o == methods[ObjectMethodName(a)]
            IN  /\ (HasGlobal(a) /\ HasObject(a)) => reported = And(g, o)
                /\ (HasGlobal(a) /\ ~HasObject(a)) => reported = g
                /\ (~HasGlobal(a) /\ HasObject(a)) => reported = o
                /\ (HasGlobal(a) /\ g = PyFalse) =>
                      /\ ObjectMethodName(a) \notin Range(field_call.invoked)
                      /\ reported = PyFalse

\* An action whose global method denies and whose object method allows is
\* reported False, the object method not called.
C8_Witness ==
    /\ Represented /\ ~field.global_only /\ ~field.object_only
    /\ \E a \in DictKeys(field_call.results) :
          /\ HasGlobal(a) /\ HasObject(a)
          /\ methods[GlobalMethodName(a)] = PyFalse
          /\ methods[ObjectMethodName(a)] = PyTrue
          /\ DictValue(field_call.results, a) = PyFalse
          /\ field_call.invoked = <<GlobalMethodName(a)>>

\* C9: with global_only, an action whose global and object methods are both
\* defined is reported with the global method's value, no object method is
\* recorded in the action_method_map or called; with object_only the object
\* method's value is reported and no global method is recorded or called.
C9_OnlyModes ==
    Represented =>
        /\ field.global_only =>
              /\ \A a \in Range(field.actions) : (HasGlobal(a) /\ HasObject(a)) =>
                    DictValue(field_call.results, a) = methods[GlobalMethodName(a)]
              /\ \A i \in 1..Len(field.action_method_map) :
                    "object" \notin DOMAIN field.action_method_map[i][2]
              /\ \A m \in Range(field_call.invoked) : ~IsObjectMethod(m)
        /\ field.object_only =>
              /\ \A a \in Range(field.actions) : (HasGlobal(a) /\ HasObject(a)) =>
                    DictValue(field_call.results, a) = methods[ObjectMethodName(a)]
              /\ \A i \in 1..Len(field.action_method_map) :
                    "global" \notin DOMAIN field.action_method_map[i][2]
              /\ \A m \in Range(field_call.invoked) : ~IsGlobalMethod(m)

\* A global_only field reports 'create' True although
\* has_object_create_permission returns False.
C9_Witness ==
    /\ Represented /\ field.global_only
    /\ "create" \in Range(field.actions)
    /\ HasGlobal("create") /\ HasObject("create")
    /\ methods["has_create_permission"] = PyTrue
    /\ methods["has_object_create_permission"] = PyFalse
    /\ DictValue(field_call.results, "create") = PyTrue

-----------------------------------------------------------------------------
(* Properties of the filter backend, checked under FilterSpec *)

\* C10: when the view's lookup field is among its kwargs, filter_queryset
\* returns the queryset it was given without calling a filter method and
\* without raising, whatever action_routing, the action and the filter
\* methods defined are.
C10_SingleObjectUnfiltered ==
    (filter_call.op = "filter_queryset" /\ view.has_lookup) =>
        /\ filter_call.result = "queryset"
        /\ filter_call.returned = filter_call.queryset
        /\ filter_call.invoked = <<>>

\* A single-object request on a backend that routes by action and defines
\* no filter method at all got its queryset back.
C10_Witness ==
    /\ filter_call.op = "filter_queryset" /\ view.has_lookup
    /\ backend.action_routing /\ backend.defined = {}
    /\ view.action = "custom_action1"
    /\ filter_call.queryset = <<"all">>
    /\ filter_call.returned = <<"all">>

\* filter_queryset was called for a list-style request: the lookup field is
\* not among the view's kwargs.
ListRequest == filter_call.op = "filter_queryset" /\ ~view.has_lookup

\* The backend has the method: its class defines it, or it is the
\* filter_list_queryset inherited from DRYPermissionFiltersBase.
BackendHas(name) == name \in backend.defined \/ name = "filter_list_queryset"

\* What calling the backend's method `name` on the queryset gives.
FilteredBy(name) ==
    IF name \in backend.defined
    THEN /\ filter_call.result = "queryset"
         /\ filter_call.returned = Append(filter_call.queryset, name)
         /\ filter_call.invoked = <<name>>
    ELSE /\ filter_call.result = AssertionError
         /\ filter_call.invoked = <<name>>

\* C11: on a list-style request, without action_routing filter_queryset
\* gives what filter_list_queryset gives for every action, the base
\* filter_list_queryset raising AssertionError; with action_routing it gives
\* what filter_{view.action}_queryset gives, calls no other filter method,
\* and raises AttributeError when the backend has no method of that name.
C11_ListRequestRouting ==
    ListRequest =>
        /\ ~backend.action_routing => FilteredBy("filter_list_queryset")
        /\ (backend.action_routing /\ view.action # NoAction) =>
              LET method_name == FilterMethodName(view.action)
              IN  /\ BackendHas(method_name) => FilteredBy(method_name)
                  /\ ~BackendHas(method_name) =>
                        /\ filter_call.result = AttributeError
                        /\ filter_call.invoked = <<>>

\* A routed custom action was filtered by its own method although the
\* backend also overrides filter_list_queryset.
C11_Witness ==
    /\ ListRequest
    /\ backend.action_routing
    /\ view.action = "custom_action1"
    /\ {"filter_list_queryset", "filter_custom_action1_queryset"} \subseteq backend.defined
    /\ filter_call.returned = <<"all", "filter_custom_action1_queryset">>
    /\ filter_call.invoked = <<"filter_custom_action1_queryset">>

-----------------------------------------------------------------------------
(* Decorator helpers *)

IndexError == "IndexError"

\* t in s, for strings
Contains(s, t) ==
    \E i \in 1..(Len(s) + 1 - Len(t)) : SubSeq(s, i, i + Len(t) - 1) = t

\* request.user: None (present FALSE) or a user object with its flags.
NoUser ==
    [present |-> FALSE, is_staff |-> FALSE, is_superuser |-> FALSE,
     is_authenticated |-> FALSE]
Users ==
    {NoUser} \cup [present : {TRUE}, is_staff : BOOLEAN, is_superuser : BOOLEAN,
                   is_authenticated : BOOLEAN]

\* A positional argument: a request with its user, or a model instance
\* (self), which has no attribute 'user'.
Instance == [is_request |-> FALSE, user |-> NoUser]
Arguments == {Instance} \cup [is_request : {TRUE}, user : Users]
ArgLists == { <<a>> : a \in Arguments } \cup (Arguments \X Arguments)

\* The decorated permission methods: a name and the value the method
\* returns when called.
FunctionNames ==
    {"has_publish_permission", "has_object_publish_permission", "has_objectives_permission"}
Functions == [name : FunctionNames, returns : {PyTrue, PyFalse}]

DecoOutcome(result, called, called_with) ==
    [result |-> result, called |-> called, called_with |-> called_with]

\* return func(*args, **kwargs)
Delegate(func, args) == DecoOutcome(func.returns, TRUE, args)

\* Lines 274, 278-281 (and 296-303, 318-325): the position of the request
\* among the arguments.
RequestIndex_first(func) == 1

RequestIndex(func) == IF Contains(func.name, "has_object") THEN 2 ELSE 1

\* Lines 276-286.
allow_staff_or_superuser(func, args) ==
    LET i == RequestIndex(func)
    IN  IF i > Len(args) THEN DecoOutcome(IndexError, FALSE, <<>>)
        ELSE IF ~args[i].is_request \/ ~args[i].user.present
        THEN DecoOutcome(AttributeError, FALSE, <<>>)
        ELSE IF args[i].user.is_staff \/ args[i].user.is_superuser
        THEN DecoOutcome(PyTrue, FALSE, <<>>)
        ELSE Delegate(func, args)

authenticated_users_any_user(func, args) ==
    LET i == RequestIndex(func)
    IN  IF i > Len(args) THEN DecoOutcome(IndexError, FALSE, <<>>)
        ELSE IF ~args[i].is_request THEN DecoOutcome(AttributeError, FALSE, <<>>)
        ELSE IF ~args[i].user.present
        THEN DecoOutcome(PyFalse, FALSE, <<>>)
        ELSE Delegate(func, args)

\* Lines 298-308.
authenticated_users(func, args) ==
    LET i == RequestIndex(func)
    IN  IF i > Len(args) THEN DecoOutcome(IndexError, FALSE, <<>>)
        ELSE IF ~args[i].is_request THEN DecoOutcome(AttributeError, FALSE, <<>>)
        ELSE IF ~(args[i].user.present /\ args[i].user.is_authenticated)
        THEN DecoOutcome(PyFalse, FALSE, <<>>)
        ELSE Delegate(func, args)

\* Lines 320-330.
unauthenticated_users(func, args) ==
    LET i == RequestIndex(func)
    IN  IF i > Len(args) THEN DecoOutcome(IndexError, FALSE, <<>>)
        ELSE IF ~args[i].is_request THEN DecoOutcome(AttributeError, FALSE, <<>>)
        ELSE IF args[i].user.present /\ args[i].user.is_authenticated
        THEN DecoOutcome(PyFalse, FALSE, <<>>)
        ELSE Delegate(func, args)

-----------------------------------------------------------------------------
(* State: a decorated permission method *)

DecoratorInit ==
    /\ methods = <<>>
    /\ has_meta_model = TRUE
    /\ permission = DefaultPermission
    /\ view = [action |-> "retrieve", has_lookup |-> TRUE]
    /\ request = [method |-> "GET"]
    /\ gate_call = NoCall
    /\ field = NoField
    /\ field_call = NoFieldCall
    /\ backend = NoBackend
    /\ filter_call = NoFilterCall
    /\ decorated \in Functions
    /\ deco_call = NoDecoCall

DecoCalled(decorator, args, o) ==
    [decorator |-> decorator, args |-> args, result |-> o.result,
     called |-> o.called, called_with |-> o.called_with]

\* allow_staff_or_superuser(func)(*args)
CallAllowStaffOrSuperuser ==
    /\ \E args \in ArgLists :
          deco_call' = DecoCalled("allow_staff_or_superuser", args,
                                  allow_staff_or_superuser(decorated, args))
    /\ UNCHANGED <<methods, has_meta_model, permission, view, request, gate_call,
                   field, field_call, backend, filter_call, decorated>>

\* authenticated_users(func)(*args)
CallAuthenticatedUsers ==
    /\ \E args \in ArgLists :
          deco_call' = DecoCalled("authenticated_users", args,
                                  authenticated_users(decorated, args))
    /\ UNCHANGED <<methods, has_meta_model, permission, view, request, gate_call,
                   field, field_call, backend, filter_call, decorated>>

\* unauthenticated_users(func)(*args)
CallUnauthenticatedUsers ==
    /\ \E args \in ArgLists :
          deco_call' = DecoCalled("unauthenticated_users", args,
                                  unauthenticated_users(decorated, args))
    /\ UNCHANGED <<methods, has_meta_model, permission, view, request, gate_call,
                   field, field_call, backend, filter_call, decorated>>

DecoratorNext ==
    CallAllowStaffOrSuperuser \/ CallAuthenticatedUsers \/ CallUnauthenticatedUsers

DecoratorSpec == DecoratorInit /\ [][DecoratorNext]_vars

-----------------------------------------------------------------------------
(* Properties of the decorators, checked under DecoratorSpec *)

\* The names of FunctionNames that contain 'has_object'.
ObjectStyleNames == {"has_object_publish_permission", "has_objectives_permission"}

\* The argument the claim takes the request from.
RequestPosition == IF decorated.name \in ObjectStyleNames THEN 2 ELSE 1

\* The argument at that position is a request.
RequestGiven ==
    /\ RequestPosition <= Len(deco_call.args)
    /\ deco_call.args[RequestPosition].is_request

TheUser == deco_call.args[RequestPosition].user

Delegated ==
    /\ deco_call.called
    /\ deco_call.called_with = deco_call.args
    /\ deco_call.result = decorated.returns

Authenticated == TheUser.present /\ TheUser.is_authenticated

\* C13: authenticated_users returns False without calling the method when
\* the request has no user or an unauthenticated one and the method's
\* result otherwise; unauthenticated_users returns False without calling
\* the method when the user is present and authenticated and the method's
\* result otherwise; on the same request exactly one of the two returns
\* False without calling and the other calls the method.
C13_AuthenticationGates ==
    RequestGiven =>
        /\ deco_call.decorator = "authenticated_users" =>
              /\ IF Authenticated THEN Delegated
                 ELSE deco_call.result = PyFalse /\ ~deco_call.called
              /\ deco_call.called # unauthenticated_users(decorated, deco_call.args).called
        /\ deco_call.decorator = "unauthenticated_users" =>
              /\ IF Authenticated
                 THEN deco_call.result = PyFalse /\ ~deco_call.called
                 ELSE Delegated
              /\ deco_call.called # authenticated_users(decorated, deco_call.args).called

\* An unauthenticated user object was refused by authenticated_users
\* although the method would have allowed.
C13_Witness ==
    /\ deco_call.decorator = "authenticated_users"
    /\ RequestGiven
    /\ TheUser.present /\ ~TheUser.is_authenticated
    /\ decorated.returns = PyTrue
    /\ deco_call.result = PyFalse
    /\ ~deco_call.called

-----------------------------------------------------------------------------
(* Configuration errors of the gate, checked under GateSpec *)

GateOp == gate_call.op \in {"has_permission", "has_object_permission"}

CheckEnabled ==
    IF gate_call.op = "has_permission" THEN permission.global_permissions
    ELSE permission.object_permissions

\* The call raised AssertionError before probing or calling any method.
RaisedAtOnce ==
    /\ gate_call.result = AssertionError
    /\ gate_call.probed = <<>>
    /\ gate_call.invoked = <<>>

\* A disabled check returns True at once, with or without a model on the
\* serializer; a called method that returns False makes the call return
\* False.
DisabledAndDenied ==
    /\ (GateOp /\ ~CheckEnabled) =>
          /\ gate_call.result = PyTrue
          /\ gate_call.probed = <<>>
          /\ gate_call.invoked = <<>>
    /\ (GateOp /\ gate_call.invoked # <<>>
              /\ methods[gate_call.invoked[Len(gate_call.invoked)]] = PyFalse) =>
          gate_call.result = PyFalse

\* C14 as stated: with the check enabled and Meta.model None, both
\* has_permission and has_object_permission raise AssertionError before
\* probing or calling any permission method; a disabled check returns True
\* at once; a method returning False gives False and no error.
C14_AsStated ==
    /\ (GateOp /\ CheckEnabled /\ ~has_meta_model) => RaisedAtOnce
    /\ DisabledAndDenied

\* C14, amended: only has_permission raises at once for a missing model;
\* has_object_permission never looks at the model: it probes the instance
\* as usual, so it returns the value of the method it finds there and
\* raises AssertionError only after probing, when the general object method
\* it needs is absent.
C14_ModelAssertedByGlobalCheckOnly ==
    /\ (gate_call.op = "has_permission" /\ CheckEnabled /\ ~has_meta_model) =>
          RaisedAtOnce
    /\ (gate_call.op = "has_object_permission" /\ CheckEnabled /\ ~has_meta_model) =>
          /\ gate_call.probed # <<>>
          /\ gate_call.invoked # <<>> =>
                gate_call.result = methods[gate_call.invoked[1]]
          /\ gate_call.invoked = <<>> =>
                /\ gate_call.result = AssertionError
                /\ gate_call.probed[Len(gate_call.probed)] \in GeneralObjectMethods
                /\ ~hasattr(methods, gate_call.probed[Len(gate_call.probed)])
    /\ DisabledAndDenied

\* Without a model, has_permission raised at once on a class that defines
\* has_read_permission for the GET at hand.
C14_Witness ==
    /\ gate_call.op = "has_permission"
    /\ permission.global_permissions /\ ~has_meta_model
    /\ Safe /\ hasattr(methods, "has_read_permission")
    /\ RaisedAtOnce

-----------------------------------------------------------------------------
(* The action_method_map, checked under FieldSpec *)

====
